---- MODULE Spec2Model ----
(***************************************************************************)
(* Model of app.py, the Flask listings application: the User and Property  *)
(* tables, the session, the upload folder, and one action per route.       *)
(*                                                                         *)
(* Text (a Python str) is a sequence of one-character strings, so that     *)
(* strip(), lower(), LIKE matching, secure_filename() and the f-string of  *)
(* save_image are computed character by character.  An optional value      *)
(* (Python None or a value) is a sequence of length 0 or 1.                *)
(***************************************************************************)
EXTENDS Integers, Sequences, FiniteSets, TLC

VARIABLES
    User,       \* table user: id -> row
    Property,   \* table property: id -> row
    session,    \* the client's Flask session: <<>> or <<user_id>>
    uploads,    \* static/uploads: stored filename -> bytes
    response,   \* the response to the last request
    results,    \* the last search: its query arguments and the ids of the rows returned
    calls,      \* save_image calls run directly against the upload folder
    seen,       \* per call: the calls that had written when its last os.path.exists ran
    deleted     \* history, kept by SpecLifecycle: the ids of the rows deleted so far

vars == <<User, Property, session, uploads, response, results, calls, seen, deleted>>

\* ---------------------------------------------------------------- bounds
MaxUsers == 3
MaxId == 2
MaxFiles == 2
MaxCalls == 2

\* ---------------------------------------------------------------- text
UpperCase == <<"A","B","C","D","E","F","G","H","I","J","K","L","M",
               "N","O","P","Q","R","S","T","U","V","W","X","Y","Z">>
LowerCase == <<"a","b","c","d","e","f","g","h","i","j","k","l","m",
               "n","o","p","q","r","s","t","u","v","w","x","y","z">>
Digits == <<"0","1","2","3","4","5","6","7","8","9">>

IsUpper(c) == \E i \in DOMAIN UpperCase : UpperCase[i] = c
IsLower(c) == \E i \in DOMAIN LowerCase : LowerCase[i] = c
IsDigit(c) == \E i \in DOMAIN Digits : Digits[i] = c
IsSpace(c) == c \in {" ", "\t", "\n"}

lower_char(c) ==
    IF IsUpper(c) THEN LowerCase[CHOOSE i \in DOMAIN UpperCase : UpperCase[i] = c] ELSE c

\* str.lower()
lower(s) == [i \in DOMAIN s |-> lower_char(s[i])]

RECURSIVE lstrip(_)
lstrip(s) == IF s # <<>> /\ IsSpace(Head(s)) THEN lstrip(Tail(s)) ELSE s

RECURSIVE rstrip(_)
rstrip(s) ==
    IF s # <<>> /\ IsSpace(s[Len(s)]) THEN rstrip(SubSeq(s, 1, Len(s) - 1)) ELSE s

\* str.strip()
strip(s) == rstrip(lstrip(s))

\* request.form.get(k) / request.form.get(k, default): a form is a record
\* holding the keys the client sent
form_get(form, k, default) == IF k \in DOMAIN form THEN form[k] ELSE default

\* ---------------------------------------------------------------- responses
\* The response to a request: the status code, the route redirected to
\* (url_for) and the message flashed.
Reply(code, to, flash) == [code |-> code, to |-> to, flash |-> flash]

NoForm == [x \in {} |-> <<>>]

\* ---------------------------------------------------------------- models
\* User.set_password / werkzeug generate_password_hash: an opaque digest
generate_password_hash(password) == <<"digest", password>>

\* User.check_password
check_password(u, password) == u.password_hash = generate_password_hash(password)

\* INTEGER PRIMARY KEY of SQLite without AUTOINCREMENT: one more than the
\* largest rowid in use
RECURSIVE MaxOf(_)
MaxOf(S) ==
    IF S = {} THEN 0
    ELSE LET x == CHOOSE x \in S : TRUE
             m == MaxOf(S \ {x})
         IN IF x > m THEN x ELSE m

NextRowId(table) == MaxOf(DOMAIN table) + 1

DemoEmail == <<"o","w","n","e","r","@","e","x","a","m","p","l","e",".","c","o","m">>

\* init_db: create_all and the demo owner
init_db_User ==
    1 :> [name |-> <<"D","e","m","o"," ","O","w","n","e","r">>,
          email |-> DemoEmail,
          password_hash |-> generate_password_hash("demo123"),
          role |-> "owner"]

\* ---------------------------------------------------------------- helpers
\* current_user(): the id of the session's user, <<>> for None
current_user ==
    IF session # <<>> /\ session[1] # 0 /\ session[1] \in DOMAIN User
    THEN <<session[1]>> ELSE <<>>

login_required == current_user # <<>>

\* faulty variant of current_user_id: User.query.first().id
first_user_id == CHOOSE id \in DOMAIN User : \A other \in DOMAIN User : id <= other

\* current_user().id
current_user_id == current_user[1]

\* faulty variant of owned_by_caller: the ownership check left out
owned_by_anyone(pid) == TRUE

\* the negation of p.owner_id != current_user().id
owned_by_caller(pid) == Property[pid].owner_id = current_user_id

\* ---------------------------------------------------------------- numbers
\* The value of a run of decimal digits
RECURSIVE digits_value(_)
digits_value(s) ==
    IF s = <<>> THEN 0
    ELSE 10 * digits_value(SubSeq(s, 1, Len(s) - 1))
         + (CHOOSE i \in DOMAIN Digits : Digits[i] = s[Len(s)]) - 1

\* float(text) and int(text) on the numerals the forms of this model hold:
\* surrounding whitespace, an optional sign, decimal digits.  Anything else
\* raises ValueError (ok = FALSE).
parse_number(text) ==
    LET t == strip(text)
        signed == t # <<>> /\ Head(t) \in {"-", "+"}
        body == IF signed THEN Tail(t) ELSE t
    IN IF body # <<>> /\ \A i \in DOMAIN body : IsDigit(body[i])
       THEN [ok |-> TRUE,
             value |-> IF signed /\ Head(t) = "-" THEN 0 - digits_value(body)
                       ELSE digits_value(body)]
       ELSE [ok |-> FALSE, value |-> 0]

\* str(i) for i >= 0
RECURSIVE str(_)
str(i) == IF i < 10 THEN <<Digits[i + 1]>> ELSE str(i \div 10) \o <<Digits[(i % 10) + 1]>>

\* x = float(request.form[k]) if request.form.get(k) else None
optional_number(form, k) ==
    IF form_get(form, k, <<>>) # <<>> THEN <<parse_number(form[k]).value>> ELSE <<>>

raises_ValueError(form, k) ==
    form_get(form, k, <<>>) # <<>> /\ ~parse_number(form[k]).ok

\* ---------------------------------------------------------------- links
\* urllib.parse.quote_plus on one character
quote_char(c) ==
    IF IsUpper(c) \/ IsLower(c) \/ IsDigit(c) \/ c \in {"_", ".", "-", "~"} THEN <<c>>
    ELSE CASE c = " " -> <<"+">>
           [] c = "%" -> <<"%", "2", "5">>
           [] c = "/" -> <<"%", "2", "F">>
           [] c = "," -> <<"%", "2", "C">>
           [] c = "@" -> <<"%", "4", "0">>

RECURSIVE quote_plus(_)
quote_plus(s) == IF s = <<>> THEN <<>> ELSE quote_char(Head(s)) \o quote_plus(Tail(s))

\* build_gmaps_link; the fixed prefix is kept as one element
build_gmaps_link(location) ==
    <<"https://www.google.com/maps/search/?api=1&query=">> \o quote_plus(location)

\* ---------------------------------------------------------------- media
\* werkzeug.utils.secure_filename on ASCII text: path separators become
\* spaces, whitespace runs become "_", characters outside [A-Za-z0-9_.-] are
\* dropped, leading and trailing "." and "_" are stripped.
RECURSIVE join_split(_, _)
join_split(s, started) ==
    IF s = <<>> THEN <<>>
    ELSE IF IsSpace(Head(s)) THEN join_split(Tail(s), started)
    ELSE (IF started THEN <<"_">> ELSE <<>>) \o
         (LET n == CHOOSE n \in 1..Len(s) :
                      /\ \A i \in 1..n : ~IsSpace(s[i])
                      /\ (n = Len(s) \/ IsSpace(s[n + 1]))
          IN SubSeq(s, 1, n) \o join_split(SubSeq(s, n + 1, Len(s)), TRUE))

IsFilenameChar(c) == IsUpper(c) \/ IsLower(c) \/ IsDigit(c) \/ c \in {"_", ".", "-"}

RECURSIVE strip_dots(_)
strip_dots(s) ==
    IF s # <<>> /\ Head(s) \in {".", "_"} THEN strip_dots(Tail(s))
    ELSE IF s # <<>> /\ s[Len(s)] \in {".", "_"} THEN strip_dots(SubSeq(s, 1, Len(s) - 1))
    ELSE s

secure_filename(filename) ==
    LET spaced == [i \in DOMAIN filename |->
                     IF filename[i] = "/" THEN " " ELSE filename[i]]
        joined == join_split(spaced, FALSE)
    IN strip_dots(SelectSeq(joined, IsFilenameChar))

\* os.path.splitext: the extension starts at the last dot that has a
\* character other than a dot before it
splitext(filename) ==
    LET dots == {i \in DOMAIN filename :
                    filename[i] = "." /\ \E j \in 1..(i - 1) : filename[j] # "."}
    IN IF dots = {} THEN [base |-> filename, ext |-> <<>>]
       ELSE LET d == MaxOf(dots)
            IN [base |-> SubSeq(filename, 1, d - 1),
                ext |-> SubSeq(filename, d, Len(filename))]

\* f"{base}_{i}{ext}"
suffixed(base, ext, i) == base \o <<"_">> \o str(i) \o ext

\* faulty variant of path_exists: no name is ever found taken
path_exists_never(folder, filename) == FALSE

\* os.path.exists(os.path.join(UPLOAD_FOLDER, filename)): the joined path of
\* an empty filename is the folder itself
path_exists(folder, filename) == filename = <<>> \/ filename \in DOMAIN folder

\* faulty variant of save: the stream is written after it was read to its end
save_truncated(folder, filename, bytes) ==
    [f \in DOMAIN folder \cup {filename} |-> IF f = filename THEN "" ELSE folder[f]]

\* file_storage.save(path)
save(folder, filename, bytes) ==
    [f \in DOMAIN folder \cup {filename} |-> IF f = filename THEN bytes ELSE folder[f]]

\* the while loop of save_image, entered with the candidate of index i - 1
RECURSIVE free_name(_, _, _, _, _)
free_name(folder, filename, base, ext, i) ==
    IF path_exists(folder, filename)
    THEN free_name(folder, suffixed(base, ext, i), base, ext, i + 1)
    ELSE filename

\* not file_storage or file_storage.filename.strip() == ""
no_file(file_storage) == file_storage = <<>> \/ strip(file_storage[1].filename) = <<>>

\* save_image run to completion on the folder: the filename returned (<<>>
\* for None) and the folder afterwards
save_image(folder, file_storage) ==
    IF no_file(file_storage) THEN [filename |-> <<>>, folder |-> folder]
    ELSE LET filename == secure_filename(file_storage[1].filename)
             split == splitext(filename)
             free == free_name(folder, filename, split.base, split.ext, 1)
         IN [filename |-> free, folder |-> save(folder, free, file_storage[1].bytes)]

\* faulty variant of remove: the file is left in place
remove_nothing(folder, filename) == folder

\* os.remove inside try/except OSError
remove(folder, filename) == [f \in DOMAIN folder \ {filename} |-> folder[f]]

\* ---------------------------------------------------------------- auth
\* faulty variant of filter_by_email: the lookup finds nothing
filter_by_email_none(email) == {}

\* User.query.filter_by(email=email).first()
filter_by_email(email) == {id \in DOMAIN User : User[id].email = email}

\* POST /register
register(form) ==
    /\ UNCHANGED <<Property, session, uploads, results, calls, seen, deleted>>
    /\ IF ~({"name", "email", "password"} \subseteq DOMAIN form)
       THEN /\ response' = Reply(400, "", "")
            /\ UNCHANGED User
       ELSE LET name == strip(form.name)
                email == lower(strip(form.email))
                password == form.password
                role == form_get(form, "role", "owner")
            IN IF name = <<>> \/ email = <<>> \/ password = ""
               THEN /\ response' = Reply(302, "register",
                                         "All fields are required.")
                    /\ UNCHANGED User
               ELSE IF filter_by_email(email) # {}
               THEN /\ response' = Reply(302, "register",
                                         "Email already registered.")
                    /\ UNCHANGED User
               ELSE /\ Cardinality(DOMAIN User) < MaxUsers
                    /\ User' = User @@ (NextRowId(User) :>
                                  [name |-> name, email |-> email,
                                   password_hash |-> generate_password_hash(password),
                                   role |-> role])
                    /\ response' = Reply(302, "login",
                                         "Registration successful. Please log in.")

\* POST /login
login(form) ==
    /\ UNCHANGED <<User, Property, uploads, results, calls, seen, deleted>>
    /\ IF ~({"email", "password"} \subseteq DOMAIN form)
       THEN /\ response' = Reply(400, "", "")
            /\ UNCHANGED session
       ELSE LET email == lower(strip(form.email))
                found == filter_by_email(email)
            IN IF found = {} \/ \A id \in found : ~check_password(User[id], form.password)
               THEN /\ response' = Reply(302, "login",
                                         "Invalid email or password.")
                    /\ UNCHANGED session
               ELSE /\ session' = <<CHOOSE id \in found : TRUE>>
                    /\ response' = Reply(302, "index", "Logged in.")

\* GET /logout
logout ==
    /\ UNCHANGED <<User, Property, uploads, results, calls, seen, deleted>>
    /\ session' = <<>>
    /\ response' = Reply(302, "index", "Logged out.")

\* ---------------------------------------------------------------- owner CRUD
\* request.form[k] of a key the client did not send: BadRequestKeyError
missing_key(form, keys) == ~(keys \subseteq DOMAIN form)

NumberKeys == {"area", "price", "rent", "rooms"}

\* The status the field reads of add_property and edit_property end in, in
\* the order they run: title, location, property_type, sale_or_rent, then
\* the four numbers, then contact
read_form(form) ==
    IF missing_key(form, {"title", "location", "property_type", "sale_or_rent"}) THEN 400
    ELSE IF \E k \in NumberKeys : raises_ValueError(form, k) THEN 500
    ELSE IF missing_key(form, {"contact"}) THEN 400
    ELSE 200

\* gmap_link = request.form.get('gmap_link', '').strip(), or the built link
gmap_link_of(form) ==
    LET gmap_link == strip(form_get(form, "gmap_link", <<>>))
    IN IF gmap_link = <<>> THEN build_gmaps_link(form.location) ELSE gmap_link

\* The Property row a form gives
Row(form, image_filename, owner_id) ==
    [title |-> form.title,
     description |-> IF "description" \in DOMAIN form THEN <<form.description>> ELSE <<>>,
     location |-> form.location,
     property_type |-> form.property_type,
     sale_or_rent |-> form.sale_or_rent,
     area |-> optional_number(form, "area"),
     price |-> optional_number(form, "price"),
     rent |-> optional_number(form, "rent"),
     rooms |-> optional_number(form, "rooms"),
     contact |-> form.contact,
     image_filename |-> image_filename,
     gmap_link |-> gmap_link_of(form),
     owner_id |-> owner_id]

\* db.session.delete(p)
delete_row(table, pid) == [id \in DOMAIN table \ {pid} |-> table[id]]

\* faulty variant of add_property: the upload is stored before the login check
add_property_saves_first(method, form, file_storage) ==
    /\ UNCHANGED <<User, Property, session, results, calls, seen, deleted>>
    /\ Cardinality(DOMAIN save_image(uploads, file_storage).folder) <= MaxFiles
    /\ uploads' = save_image(uploads, file_storage).folder
    /\ response' = IF login_required THEN Reply(200, "", "")
                   ELSE Reply(302, "login", "Please log in first.")

\* GET or POST /add
add_property(method, form, file_storage) ==
    /\ UNCHANGED <<User, session, results, calls, seen, deleted>>
    /\ IF ~login_required
       THEN /\ response' = Reply(302, "login", "Please log in first.")
            /\ UNCHANGED <<Property, uploads>>
       ELSE IF method = "GET"
       THEN /\ response' = Reply(200, "", "")
            /\ UNCHANGED <<Property, uploads>>
       ELSE IF read_form(form) # 200
       THEN /\ response' = Reply(read_form(form), "", "")
            /\ UNCHANGED <<Property, uploads>>
       ELSE LET saved == save_image(uploads, file_storage)
                pid == NextRowId(Property)
            IN /\ pid <= MaxId
               /\ Cardinality(DOMAIN saved.folder) <= MaxFiles
               /\ uploads' = saved.folder
               /\ Property' = Property @@ (pid :> Row(form, saved.filename, current_user_id))
               /\ response' = Reply(302, "properties", "Property added!")

\* GET or POST /edit/<pid>
edit_property(method, pid, form, file_storage) ==
    /\ UNCHANGED <<User, session, results, calls, seen, deleted>>
    /\ IF ~login_required
       THEN /\ response' = Reply(302, "login", "Please log in first.")
            /\ UNCHANGED <<Property, uploads>>
       ELSE IF pid \notin DOMAIN Property
       THEN /\ response' = Reply(404, "", "")
            /\ UNCHANGED <<Property, uploads>>
       ELSE IF ~owned_by_caller(pid)
       THEN /\ response' = Reply(403, "", "")
            /\ UNCHANGED <<Property, uploads>>
       ELSE IF method = "GET"
       THEN /\ response' = Reply(200, "", "")
            /\ UNCHANGED <<Property, uploads>>
       ELSE IF read_form(form) # 200
       THEN /\ response' = Reply(read_form(form), "", "")
            /\ UNCHANGED <<Property, uploads>>
       ELSE LET saved == save_image(uploads, file_storage)
                image_filename == IF no_file(file_storage) THEN Property[pid].image_filename
                                  ELSE saved.filename
            IN /\ Cardinality(DOMAIN saved.folder) <= MaxFiles
               /\ uploads' = saved.folder
               /\ Property' = [Property EXCEPT
                                 ![pid] = Row(form, image_filename, Property[pid].owner_id)]
               /\ response' = Reply(302, "property_detail",
                                    "Property updated!")

\* POST /delete/<pid>; the history variable deleted is left to the specification
delete_property(pid) ==
    /\ UNCHANGED <<User, session, results, calls, seen>>
    /\ IF ~login_required
       THEN /\ response' = Reply(302, "login", "Please log in first.")
            /\ UNCHANGED <<Property, uploads>>
       ELSE IF pid \notin DOMAIN Property
       THEN /\ response' = Reply(404, "", "")
            /\ UNCHANGED <<Property, uploads>>
       ELSE IF ~owned_by_caller(pid)
       THEN /\ response' = Reply(403, "", "")
            /\ UNCHANGED <<Property, uploads>>
       ELSE /\ uploads' = IF Property[pid].image_filename # <<>>
                          THEN remove(uploads, Property[pid].image_filename)
                          ELSE uploads
            /\ Property' = delete_row(Property, pid)
            /\ response' = Reply(302, "properties", "Property deleted.")

\* GET /property/<pid>
property_detail(pid) ==
    /\ UNCHANGED <<User, Property, session, uploads, results, calls, seen, deleted>>
    /\ response' = Reply(IF pid \in DOMAIN Property THEN 200 ELSE 404, "", "")

\* ---------------------------------------------------------------- search
\* SQL LIKE as SQLite evaluates it: "%" matches any run of characters, "_"
\* any one character, any other character itself
RECURSIVE like(_, _)
like(text, pattern) ==
    IF pattern = <<>> THEN text = <<>>
    ELSE IF Head(pattern) = "%"
    THEN \E n \in 0..Len(text) : like(SubSeq(text, n + 1, Len(text)), Tail(pattern))
    ELSE /\ text # <<>>
         /\ Head(pattern) = "_" \/ Head(pattern) = Head(text)
         /\ like(Tail(text), Tail(pattern))

\* Property.location.ilike(f"%{q_location}%"): lower(location) LIKE lower(pattern)
ilike(location, q_location) ==
    like(lower(location), lower(<<"%">> \o q_location \o <<"%">>))

\* request.args.get(k, type=float) / type=int: None when the key is absent
\* or its text does not convert
args_number(args, k) ==
    IF k \in DOMAIN args /\ parse_number(args[k]).ok
    THEN <<parse_number(args[k]).value>> ELSE <<>>

\* column >= bound, column <= bound, column == value: NULL compares to nothing
ge(column, bound) == column # <<>> /\ column[1] >= bound[1]
le(column, bound) == column # <<>> /\ column[1] <= bound[1]
eq(column, value) == column # <<>> /\ column[1] = value[1]

\* the filters the query of properties() accumulates
filter(p, args) ==
    LET q_location == strip(form_get(args, "location", <<>>))
        q_type == form_get(args, "type", "")
        q_mode == form_get(args, "mode", "")
        q_min_price == args_number(args, "min_price")
        q_max_price == args_number(args, "max_price")
        q_min_rent == args_number(args, "min_rent")
        q_max_rent == args_number(args, "max_rent")
        q_min_area == args_number(args, "min_area")
        q_max_area == args_number(args, "max_area")
        q_rooms == args_number(args, "rooms")
    IN /\ q_location # <<>> => ilike(p.location, q_location)
       /\ q_type # "" => p.property_type = q_type
       /\ q_mode # "" => p.sale_or_rent = q_mode
       /\ q_min_price # <<>> => ge(p.price, q_min_price)
       /\ q_max_price # <<>> => le(p.price, q_max_price)
       /\ q_min_rent # <<>> => ge(p.rent, q_min_rent)
       /\ q_max_rent # <<>> => le(p.rent, q_max_rent)
       /\ q_min_area # <<>> => ge(p.area, q_min_area)
       /\ q_max_area # <<>> => le(p.area, q_max_area)
       /\ q_rooms # <<>> => eq(p.rooms, q_rooms)

\* order_by(Property.id.desc()).all() over a set of ids
RECURSIVE order_by_id_desc(_)
order_by_id_desc(ids) ==
    IF ids = {} THEN <<>>
    ELSE <<MaxOf(ids)>> \o order_by_id_desc(ids \ {MaxOf(ids)})

\* GET /properties
properties(args) ==
    /\ UNCHANGED <<User, Property, session, uploads, calls, seen, deleted>>
    /\ results' = [args |-> args,
                   rows |-> order_by_id_desc({id \in DOMAIN Property :
                                                 filter(Property[id], args)})]
    /\ response' = Reply(200, "", "")

\* ---------------------------------------------------------------- save_image, step by step
\* A call of save_image in its own request: line 65-70 start it, each turn
\* of the while loop is one os.path.exists, and file_storage.save ends it.
start_call(file_storage) ==
    /\ Len(calls) < MaxCalls
    /\ UNCHANGED <<User, Property, session, uploads, response, results, deleted>>
    /\ seen' = Append(seen, {})
    /\ IF no_file(file_storage)
       THEN calls' = Append(calls, [file_storage |-> file_storage, pc |-> "done",
                                    filename |-> <<>>, base |-> <<>>, ext |-> <<>>, i |-> 1])
       ELSE LET filename == secure_filename(file_storage[1].filename)
                split == splitext(filename)
            IN calls' = Append(calls, [file_storage |-> file_storage, pc |-> "exists",
                                       filename |-> filename, base |-> split.base,
                                       ext |-> split.ext, i |-> 1])

\* the calls whose file_storage.save has run
written == {d \in DOMAIN calls : calls[d].pc = "done" /\ calls[d].filename # <<>>}

\* while os.path.exists(path): filename = f"{base}_{i}{ext}"; i += 1
exists_call(c) ==
    /\ calls[c].pc = "exists"
    /\ UNCHANGED <<User, Property, session, uploads, response, results, deleted>>
    /\ IF path_exists(uploads, calls[c].filename)
       THEN /\ calls' = [calls EXCEPT
                           ![c].filename = suffixed(calls[c].base, calls[c].ext, calls[c].i),
                           ![c].i = calls[c].i + 1]
            /\ UNCHANGED seen
       ELSE /\ calls' = [calls EXCEPT ![c].pc = "save"]
            /\ seen' = [seen EXCEPT ![c] = written]

\* file_storage.save(path); return filename
save_call(c) ==
    /\ calls[c].pc = "save"
    /\ UNCHANGED <<User, Property, session, response, results, seen, deleted>>
    /\ uploads' = save(uploads, calls[c].filename, calls[c].file_storage[1].bytes)
    /\ calls' = [calls EXCEPT ![c].pc = "done"]

\* ---------------------------------------------------------------- inputs
RegisterForms ==
    { [name |-> <<"B">>, email |-> <<" ","B">>, password |-> "pw", role |-> "customer"],
      [name |-> <<"B">>, email |-> <<"b"," ">>, password |-> "pw"],
      [name |-> <<"C">>, email |-> <<"c">>, password |-> "pw"],
      [name |-> <<" ">>, email |-> <<"c">>, password |-> "pw"],
      [name |-> <<"O">>, email |-> <<"O","w","n","e","r","@","E","x","a","m","p","l","e",".","c","o","m">>,
       password |-> "pw"],
      [name |-> <<"C">>, email |-> <<"C">>, password |-> ""],
      [name |-> <<"C">>, email |-> <<"c">>] }

LoginForms ==
    { [email |-> <<"O","w","n","e","r","@","e","x","a","m","p","l","e",".","c","o","m"," ">>,
       password |-> "demo123"],
      [email |-> DemoEmail, password |-> "pw"],
      [email |-> <<"B">>, password |-> "pw"],
      [email |-> <<"c">>, password |-> "pw"] }

\* ---------------------------------------------------------------- specs
Init ==
    /\ User = init_db_User
    /\ Property = <<>>
    /\ session = <<>>
    /\ uploads = <<>>
    /\ response = Reply(0, "", "")
    /\ results = [args |-> NoForm, rows |-> <<>>]
    /\ calls = <<>>
    /\ seen = <<>>
    /\ deleted = {}

Lagos == <<"L","a","g","o","s">>

FormHouse ==
    [title |-> "2BR Flat", description |-> "flat", location |-> Lagos,
     property_type |-> "house", sale_or_rent |-> "rent",
     area |-> <<>>, price |-> <<>>, rent |-> <<"5","0","0">>, rooms |-> <<"2">>,
     contact |-> "080", gmap_link |-> <<" ">>]

FormLand ==
    [title |-> "Plot", location |-> <<"a","_","b">>,
     property_type |-> "land", sale_or_rent |-> "sale",
     area |-> <<"7">>, price |-> <<"3">>,
     contact |-> "081", gmap_link |-> <<"m">>]

FormNoTitle == [FormHouse EXCEPT !.title = ""]
FormNegative == [FormLand EXCEPT !.price = <<"-","5">>]
FormBadRooms == [FormHouse EXCEPT !.rooms = <<"x">>]
FormNoContact == [k \in DOMAIN FormLand \ {"contact"} |-> FormLand[k]]

PropertyForms == {FormHouse, FormLand}

Image(filename, bytes) == <<[filename |-> filename, bytes |-> bytes]>>

Images == {<<>>, Image(<<"h",".","j">>, "x")}

Pids == 1..(MaxId + 1)

RegisterB == [name |-> <<"B">>, email |-> <<" ","B">>, password |-> "pw", role |-> "customer"]
LoginDemo == [email |-> DemoEmail, password |-> "demo123"]
LoginB == [email |-> <<"B">>, password |-> "pw"]

Next ==
    \/ register(RegisterB)
    \/ \E form \in {LoginDemo, LoginB} : login(form)
    \/ logout
    \/ \E file_storage \in Images : add_property("POST", FormHouse, file_storage)
    \/ add_property("GET", NoForm, <<>>)
    \/ \E pid \in Pids, file_storage \in Images :
           edit_property("POST", pid, FormLand, file_storage)
    \/ \E pid \in Pids : edit_property("GET", pid, NoForm, <<>>)
    \/ \E pid \in Pids : delete_property(pid) /\ UNCHANGED deleted
    \/ \E pid \in Pids : property_detail(pid)

Spec == Init /\ [][Next]_vars

\* /add with every kind of form, by the demo owner
AllForms == {FormHouse, FormLand, FormNoTitle, FormNegative, FormBadRooms, FormNoContact}

NextCreate ==
    \/ login(LoginDemo)
    \/ logout
    \/ \E form \in AllForms, file_storage \in Images :
           add_property("POST", form, file_storage)
    \/ \E pid \in Pids : delete_property(pid) /\ UNCHANGED deleted

SpecCreate == Init /\ [][NextCreate]_vars

\* the life of the listings of the demo owner, with the ids deleted so far
NextLifecycle ==
    \/ login(LoginDemo)
    \/ \E form \in PropertyForms : add_property("POST", form, <<>>)
    \/ \E pid \in Pids : edit_property("POST", pid, FormLand, <<>>)
    \/ \E pid \in Pids : property_detail(pid)
    \/ \E pid \in Pids :
           /\ delete_property(pid)
           /\ deleted' = IF pid \in DOMAIN Property /\ pid \notin DOMAIN Property'
                         THEN deleted \cup {pid} ELSE deleted

SpecLifecycle == Init /\ [][NextLifecycle]_vars

\* /properties over the listings of the demo owner
FormVilla ==
    [title |-> "Villa", location |-> <<"L","a","_","b">>,
     property_type |-> "house", sale_or_rent |-> "sale",
     area |-> <<"7">>, price |-> <<"5","0","0">>, rent |-> <<"3">>, rooms |-> <<"2">>,
     contact |-> "082"]

SearchArgs ==
    LET text == [location : {<<>>, <<"l","A">>, <<" ","_"," ">>},
                 type : {"", "house"}, mode : {"", "sale"}]
        numbers ==
            { NoForm,
              [min_price |-> <<"3">>], [max_price |-> <<"3">>],
              [min_rent |-> <<"4">>], [max_rent |-> <<"5","0","0">>],
              [min_area |-> <<"7">>], [max_area |-> <<"6">>],
              [rooms |-> <<"2">>], [rooms |-> <<"x">>, min_price |-> <<>>],
              [min_price |-> <<"3">>, max_price |-> <<"5","0","0">>, min_area |-> <<"1">>],
              [min_rent |-> <<"3">>, max_rent |-> <<"3">>, rooms |-> <<"2">>],
              [min_price |-> <<"4">>, max_price |-> <<"9">>, min_rent |-> <<"1">>,
               max_rent |-> <<"9">>, min_area |-> <<"1">>, max_area |-> <<"9">>,
               rooms |-> <<"2">>] }
    IN {t @@ n : t \in text, n \in {NoForm}}
       \cup {t @@ n : t \in {[location |-> <<>>, type |-> "", mode |-> ""],
                               [location |-> <<"A">>, type |-> "house", mode |-> "sale"]},
                      n \in numbers}
       \cup numbers

NextSearch ==
    \/ login(LoginDemo)
    \/ \E form \in {FormHouse, FormLand, FormVilla} : add_property("POST", form, <<>>)
    \/ \E pid \in Pids : delete_property(pid) /\ UNCHANGED deleted
    \/ \E args \in SearchArgs : properties(args)

SpecSearch == Init /\ [][NextSearch]_vars

\* save_image alone, one call at a time and under any interleaving
Uploads ==
    { <<>>,
      Image(<<"h",".","j">>, "x"), Image(<<"h",".","j">>, "y"),
      Image(<<"h","_","1",".","j">>, "x"), Image(<<"/","h"," ",".","j">>, "y"),
      Image(<<" ">>, "x"), Image(<<"?">>, "y") }

NextMedia ==
    \/ \E file_storage \in Uploads :
           /\ \A c \in DOMAIN calls : calls[c].pc = "done"
           /\ start_call(file_storage)
    \/ \E c \in DOMAIN calls : exists_call(c)
    \/ \E c \in DOMAIN calls : save_call(c)

SpecMedia == Init /\ [][NextMedia]_vars

NextConcurrent ==
    \/ \E file_storage \in Uploads : start_call(file_storage)
    \/ \E c \in DOMAIN calls : exists_call(c)
    \/ \E c \in DOMAIN calls : save_call(c)

SpecConcurrent == Init /\ [][NextConcurrent]_vars

NextAuth ==
    \/ \E form \in RegisterForms : register(form)
    \/ \E form \in LoginForms : login(form)
    \/ logout

SpecAuth == Init /\ [][NextAuth]_vars

\* ================================================================ claims
Methods == {"GET", "POST"}

\* the step is an edit request on pid
IsEdit(pid) ==
    \E method \in Methods, form \in PropertyForms \cup {NoForm}, file_storage \in Images :
        edit_property(method, pid, form, file_storage)

\* the step is an add request
IsAdd ==
    \E method \in Methods, form \in PropertyForms \cup {NoForm}, file_storage \in Images :
        add_property(method, form, file_storage)

\* the caller is authenticated and is not the owner of the listing pid
NonOwner(pid) ==
    /\ session # <<>> /\ session[1] \in DOMAIN User
    /\ pid \in DOMAIN Property
    /\ Property[pid].owner_id # session[1]

\* the caller is authenticated and owns the listing pid
Owner(pid) ==
    /\ session # <<>> /\ session[1] \in DOMAIN User
    /\ pid \in DOMAIN Property
    /\ Property[pid].owner_id = session[1]

\* C1: an edit or delete request on a listing by an authenticated caller who
\* is not its owner is answered 403, and leaves every Property row (every
\* field, image_filename included) and the stored image files as they were.
C1_NonOwnerForbidden ==
    [][\A pid \in Pids :
          (NonOwner(pid) /\ (IsEdit(pid) \/ delete_property(pid)))
          => (response'.code = 403 /\ Property' = Property /\ uploads' = uploads)]_vars

\* a non-owner has just been refused on a listing that has a stored image
C1_Witness ==
    /\ response.code = 403
    /\ \E pid \in DOMAIN Property :
          NonOwner(pid) /\ Property[pid].image_filename \in DOMAIN uploads

\* C3 as stated, for the requests that send name, email and password: no two
\* User rows have the same email after trimming and lowercasing, and a
\* register request whose normalized email is that of an existing user gets
\* the conflict notice, creates no row and changes none.
Normalized(email) == lower(strip(email))

UniqueEmails(table) ==
    \A a, b \in DOMAIN table :
        a # b => Normalized(table[a].email) # Normalized(table[b].email)

EmailTaken(form) ==
    /\ "email" \in DOMAIN form
    /\ \E id \in DOMAIN User : Normalized(User[id].email) = Normalized(form.email)

C3_AsStated ==
    [][/\ UniqueEmails(User')
       /\ \A form \in {f \in RegisterForms : {"name", "email", "password"} \subseteq DOMAIN f} :
             (EmailTaken(form) /\ register(form))
             => (User' = User /\ response' = Reply(302, "register", "Email already registered."))]_vars

\* C3 amended: the emails stay unique and a register request with a taken
\* email creates and changes no row; it gets the conflict notice when name,
\* email and password are all sent and not blank, and otherwise the
\* missing-field answer (400 for an absent key, "All fields are required.").
Complete(form) ==
    /\ {"name", "email", "password"} \subseteq DOMAIN form
    /\ strip(form.name) # <<>> /\ strip(form.email) # <<>> /\ form.password # ""

C3_UniqueEmail ==
    [][/\ UniqueEmails(User')
       /\ \A form \in RegisterForms :
             (EmailTaken(form) /\ register(form))
             => /\ User' = User
                /\ Complete(form)
                   => response' = Reply(302, "register", "Email already registered.")
                /\ ~Complete(form)
                   => response' \in {Reply(400, "", ""),
                                     Reply(302, "register", "All fields are required.")}]_vars

\* a second registration of a taken email has just been refused
C3_Witness ==
    /\ response = Reply(302, "register", "Email already registered.")
    /\ Cardinality(DOMAIN User) >= 2

\* C4: an add, edit or delete request whose session resolves to no user is
\* redirected to login and changes no Property row and no stored file.
C4_LoginGate ==
    [][((session = <<>> \/ session[1] \notin DOMAIN User)
        /\ (IsAdd \/ \E pid \in Pids : IsEdit(pid) \/ delete_property(pid)))
       => (/\ response' = Reply(302, "login", "Please log in first.")
           /\ Property' = Property
           /\ uploads' = uploads)]_vars

\* an anonymous request has just been turned away while listings and files exist
C4_Witness ==
    /\ session = <<>>
    /\ response = Reply(302, "login", "Please log in first.")
    /\ Property # <<>>
    /\ uploads # <<>>

\* C5: a delete request by the owner removes the row; the referenced file is
\* gone from the folder afterwards; without a reference the folder is
\* untouched; every other row is as before.
C5_OwnerDelete ==
    [][\A pid \in Pids :
          (Owner(pid) /\ delete_property(pid))
          => LET image == Property[pid].image_filename
             IN /\ response' = Reply(302, "properties", "Property deleted.")
                /\ DOMAIN Property' = DOMAIN Property \ {pid}
                /\ \A other \in DOMAIN Property \ {pid} : Property'[other] = Property[other]
                /\ image # <<>> => image \notin DOMAIN uploads'
                /\ image = <<>> => uploads' = uploads]_vars

\* a listing and its image were deleted while a later listing keeps its own
C5_Witness ==
    /\ response = Reply(302, "properties", "Property deleted.")
    /\ <<"h",".","j">> \notin DOMAIN uploads
    /\ \E pid \in DOMAIN Property :
          /\ Property[pid].image_filename = <<"h","_","1",".","j">>
          /\ Property[pid].image_filename \in DOMAIN uploads

\* C10: every row's owner_id is the id of an existing user; a new row gets
\* the id of the authenticated caller; no step changes the owner_id of a row.
C10_OwnerFixed ==
    [][/\ \A pid \in DOMAIN Property' : Property'[pid].owner_id \in DOMAIN User'
       /\ \A pid \in DOMAIN Property' \cap DOMAIN Property :
             Property'[pid].owner_id = Property[pid].owner_id
       /\ \A pid \in DOMAIN Property' \ DOMAIN Property :
             /\ session # <<>> /\ session[1] \in DOMAIN User
             /\ Property'[pid].owner_id = session[1]]_vars

\* an owner has just edited a listing while both users own listings
C10_Witness ==
    /\ response = Reply(302, "property_detail", "Property updated!")
    /\ \E p, q \in DOMAIN Property :
          /\ Property[p].owner_id # Property[q].owner_id
          /\ Property[p].title = FormLand.title

\* C2 as stated: the search returns exactly the listings that satisfy every
\* supplied filter, location being a case-insensitive substring test, in
\* strictly descending order of id.
Contains(text, sub) ==
    \E i \in 0..(Len(text) - Len(sub)) : SubSeq(text, i + 1, i + Len(sub)) = sub

Supplied(args, k) == k \in DOMAIN args /\ parse_number(args[k]).ok

Bound(args, k) == parse_number(args[k]).value

Satisfies(p, args) ==
    /\ strip(form_get(args, "location", <<>>)) # <<>>
       => Contains(lower(p.location), lower(strip(args.location)))
    /\ form_get(args, "type", "") # "" => p.property_type = args.type
    /\ form_get(args, "mode", "") # "" => p.sale_or_rent = args.mode
    /\ Supplied(args, "min_price") => p.price # <<>> /\ p.price[1] >= Bound(args, "min_price")
    /\ Supplied(args, "max_price") => p.price # <<>> /\ p.price[1] <= Bound(args, "max_price")
    /\ Supplied(args, "min_rent") => p.rent # <<>> /\ p.rent[1] >= Bound(args, "min_rent")
    /\ Supplied(args, "max_rent") => p.rent # <<>> /\ p.rent[1] <= Bound(args, "max_rent")
    /\ Supplied(args, "min_area") => p.area # <<>> /\ p.area[1] >= Bound(args, "min_area")
    /\ Supplied(args, "max_area") => p.area # <<>> /\ p.area[1] <= Bound(args, "max_area")
    /\ Supplied(args, "rooms") => p.rooms # <<>> /\ p.rooms[1] = Bound(args, "rooms")

ExactlyDescending(seq, ids) ==
    /\ {seq[i] : i \in DOMAIN seq} = ids
    /\ \A i \in 1..(Len(seq) - 1) : seq[i] > seq[i + 1]

C2_SearchExact ==
    [][results' # results
       => ExactlyDescending(results'.rows,
              {id \in DOMAIN Property' : Satisfies(Property'[id], results'.args)})]_vars

\* C6: with one save_image call at a time, the name a call returns named no
\* file before the call: it is the sanitized name when that is free and
\* otherwise the first free base_1, base_2, ...; no two calls return the same
\* name and every stored file holds the bytes of the call that stored it.
Stored == {c \in DOMAIN calls : calls[c].pc = "done" /\ calls[c].filename # <<>>}

Bytes(c) == calls[c].file_storage[1].bytes

NamesBefore(c) == {calls[d].filename : d \in {d \in Stored : d < c}}

FirstFree(c) ==
    LET name == secure_filename(calls[c].file_storage[1].filename)
        split == splitext(name)
        numbered(i) == split.base \o <<"_">> \o str(i) \o split.ext
    IN IF name # <<>> /\ name \notin NamesBefore(c) THEN name
       ELSE numbered(CHOOSE i \in 1..(Len(calls) + 1) :
                        /\ numbered(i) \notin NamesBefore(c)
                        /\ \A j \in 1..(i - 1) : numbered(j) \in NamesBefore(c))

C6_FreshName ==
    \A c \in Stored :
        /\ calls[c].filename \notin NamesBefore(c)
        /\ calls[c].filename = FirstFree(c)
        /\ \A d \in Stored \ {c} : calls[d].filename # calls[c].filename
        /\ uploads[calls[c].filename] = Bytes(c)

\* two uploads proposed the same name: both are stored, under two names
C6_Witness ==
    \E c, d \in Stored :
        /\ c < d
        /\ calls[c].file_storage[1].filename = calls[d].file_storage[1].filename
        /\ Bytes(c) # Bytes(d)
        /\ calls[c].filename = <<"h",".","j">>
        /\ calls[d].filename = <<"h","_","1",".","j">>
        /\ uploads[calls[c].filename] = Bytes(c)
        /\ uploads[calls[d].filename] = Bytes(d)

\* C7 as stated: under any interleaving the name returned to a call names a
\* file that holds that call's bytes, and no two calls return the same name.
C7_AsStated ==
    \A c \in Stored :
        /\ uploads[calls[c].filename] = Bytes(c)
        /\ \A d \in Stored \ {c} : calls[d].filename # calls[c].filename

\* C7 amended: the name a call returns named no file when the call's last
\* os.path.exists ran; two calls return the same name only when neither had
\* written at the other's last check, and then the file holds the bytes of
\* the one that wrote last; otherwise the file holds the call's own bytes.
Overlap(c, d) == c \notin seen[d] /\ d \notin seen[c]

C7_FreshAtCheck ==
    /\ \A c \in DOMAIN calls :
          calls[c].pc = "save" \/ c \in Stored
          => \A d \in seen[c] : calls[d].filename # calls[c].filename
    /\ \A c \in Stored :
          /\ \A d \in Stored \ {c} : calls[d].filename = calls[c].filename => Overlap(c, d)
          /\ \/ uploads[calls[c].filename] = Bytes(c)
             \/ \E d \in Stored \ {c} :
                   /\ calls[d].filename = calls[c].filename
                   /\ Overlap(c, d)
                   /\ uploads[calls[c].filename] = Bytes(d)

\* two overlapping calls have returned the same name and one file is lost
C7_Witness ==
    \E c, d \in Stored :
        /\ c # d
        /\ calls[c].filename = calls[d].filename
        /\ Bytes(c) # Bytes(d)
        /\ uploads[calls[c].filename] = Bytes(d)

\* C8 as stated: a create request by an authenticated caller with an empty
\* required string field, or a supplied number that does not parse to a
\* non-negative number, is sent back to the form and persists no row.
Invalid(form) ==
    \/ \E k \in {"title", "property_type", "sale_or_rent", "contact"} \cap DOMAIN form :
          form[k] = ""
    \/ "location" \in DOMAIN form /\ form.location = <<>>
    \/ \E k \in NumberKeys \cap DOMAIN form :
          /\ form[k] # <<>>
          /\ ~parse_number(form[k]).ok \/ parse_number(form[k]).value < 0

C8_InvalidCreateRejected ==
    [][\A form \in AllForms, file_storage \in Images :
          (/\ session # <<>> /\ session[1] \in DOMAIN User
           /\ Invalid(form)
           /\ add_property("POST", form, file_storage))
          => (/\ Property' = Property
              /\ response'.code = 302 /\ response'.to = "add")]_vars

\* C9 as stated: once the listing with an id has been deleted, no listing
\* with that id exists again.
C9_DeletedIsTerminal == \A pid \in deleted : pid \notin DOMAIN Property

====
